---- MODULE Spec2Model ----
(***************************************************************************)
(* A model of LilySurfaceScrapper's Cycles back end:                       *)
(*   cycles_utils.py        getCyclesImage, autoAlignNodes,                *)
(*                          addRandomizeTiles, guessColorSpaceFromExtension*)
(*                          AppendableNodeGroup / appendFromBlend          *)
(*   CyclesMaterialData.py  createMaterial                                 *)
(* Blender's data (bpy.data.images, bpy.data.node_groups, a material's     *)
(* nodes and links) is the state; each function of the add-on is an action.*)
(***************************************************************************)
EXTENDS Integers, Sequences, FiniteSets, Bags, TLC

VARIABLES
    fname, guess,                       \* guessColorSpaceFromExtension: argument, result
    images, arg, ret, loads,            \* bpy.data.images; last getCyclesImage call
    node_groups, blend, appends, returned,  \* bpy.data.node_groups; node-groups.blend;
                                        \* appendFromBlend calls; groups get() returned
    nodes, links,                       \* material.node_tree.nodes and .links
    use_nodes, texcoord_links, doFn, doRet, \* addRandomizeTiles: its closure and results
    graph, location, aligned,           \* a node tree's input links; node.location;
                                        \* the roots autoAlignNodes was called with
    maps, todo, pc,                     \* createMaterial: self.maps, the entries the loop
                                        \* has not reached, the position in the function
    back_principled, normal_node, displacement_node,    \* createMaterial's locals
    image_of, color_space_of,           \* texture_node.image, texture_node.color_space
    rough_one, blend_method,            \* nodes with Roughness default 1.0; mat.blend_method
    has_color_space                     \* hasattr(texture_node, "color_space") in this Blender

colorVars == <<fname, guess>>
imgVars == <<images, arg, ret, loads>>
grpVars == <<node_groups, blend, appends, returned>>
treeVars == <<nodes, links>>
tileVars == <<use_nodes, texcoord_links, doFn, doRet>>
layVars == <<graph, location, aligned>>
matVars == <<maps, todo, pc, back_principled, normal_node, displacement_node,
             image_of, color_space_of, rough_one, blend_method, has_color_space>>
vars == <<colorVars, imgVars, grpVars, treeVars, tileVars, layVars, matVars>>

\* Python's None where a path is expected (no input path is empty)
None == <<>>

\* no result yet
NoGuess == [name |-> "", old_name |-> ""]

(***************************************************************************)
(* guessColorSpaceFromExtension (cycles_utils.py 110-122).                 *)
(* A file name is a sequence of characters.                                *)
(***************************************************************************)
MaxNameLen == 5

Chars == {".", "j", "p", "e", "g", "n", "J", "P", "G", "x"}

\* str.lower() on one character of Chars
ToLower(c) ==
    CASE c = "J" -> "j"
      [] c = "P" -> "p"
      [] c = "G" -> "g"
      [] OTHER -> c

lower(s) == [i \in 1..Len(s) |-> ToLower(s[i])]

endswith(s, suf) ==
    /\ Len(s) >= Len(suf)
    /\ SubSeq(s, Len(s) - Len(suf) + 1, Len(s)) = suf

ExtJpg == <<".", "j", "p", "g">>
ExtJpeg == <<".", "j", "p", "e", "g">>
ExtPng == <<".", "p", "n", "g">>

SRGB == [name |-> "sRGB", old_name |-> "COLOR"]
Linear == [name |-> "Linear", old_name |-> "NONE"]

\* faulty variant: the name is not lower-cased before the test
guessNoLower(img) ==
    IF endswith(img, ExtJpg) \/ endswith(img, ExtJpeg) \/ endswith(img, ExtPng)
    THEN SRGB
    ELSE Linear

guessColorSpaceFromExtension(img) ==
    LET l == lower(img)
    IN  IF endswith(l, ExtJpg) \/ endswith(l, ExtJpeg) \/ endswith(l, ExtPng)
        THEN SRGB
        ELSE Linear

ColorIdle == fname = <<>> /\ guess = NoGuess
\* every name of at most MaxNameLen characters
ColorInit ==
    /\ \E n \in 0..MaxNameLen : fname \in [1..n -> Chars]
    /\ guess = NoGuess

GuessColorSpace ==
    /\ guess = NoGuess
    /\ guess' = guessColorSpaceFromExtension(fname)
    /\ UNCHANGED <<fname, imgVars, grpVars, treeVars, tileVars, layVars, matVars>>

(***************************************************************************)
(* getCyclesImage (cycles_utils.py 19-24).                                 *)
(* A path is a sequence of components; a leading "/" component makes it    *)
(* absolute.  os.path.abspath joins a relative path to the working         *)
(* directory and normalises the result.                                    *)
(***************************************************************************)
MaxImages == 2

DirComps == {".", "..", "tex"}
FileComps == {"tex", "a.png"}

\* os.getcwd()
Cwd == <<"/", "tex">>

TwoComps == {<<d, f>> : d \in DirComps, f \in FileComps}

RelPaths == {<<c>> : c \in DirComps \cup FileComps} \cup TwoComps

Paths == RelPaths \cup {<<"/">> \o p : p \in TwoComps}

isabs(p) == Len(p) > 0 /\ p[1] = "/"

join(a, p) == IF isabs(p) THEN p ELSE a \o p

\* os.path.normpath on the components after the root of an absolute path
RECURSIVE normcomps(_, _)
normcomps(comps, new_comps) ==
    IF comps = <<>> THEN new_comps
    ELSE LET comp == Head(comps)
         IN  IF comp = "."
             THEN normcomps(Tail(comps), new_comps)
             ELSE IF comp # ".."
                     \/ (new_comps # <<>> /\ new_comps[Len(new_comps)] = "..")
             THEN normcomps(Tail(comps), Append(new_comps, comp))
             ELSE IF new_comps # <<>>
             THEN normcomps(Tail(comps), SubSeq(new_comps, 1, Len(new_comps) - 1))
             ELSE normcomps(Tail(comps), new_comps)

abspath(p) == <<"/">> \o normcomps(Tail(join(Cwd, p)), <<>>)

\* faulty variant: the paths are compared as given
rawpath(p) == p

\* the path form the cache compares
cachekey(p) == abspath(p)

\* index in bpy.data.images of the first image with the same absolute path, 0 if none
FindImage(imgs, imgpath) ==
    IF \E i \in 1..Len(imgs) : cachekey(imgs[i].filepath) = cachekey(imgpath)
    THEN CHOOSE i \in 1..Len(imgs) :
            /\ cachekey(imgs[i].filepath) = cachekey(imgpath)
            /\ \A j \in 1..(i - 1) : cachekey(imgs[j].filepath) # cachekey(imgpath)
    ELSE 0

NewImage(p) == [filepath |-> p, colorspace |-> "sRGB"]

\* bpy.data.images.load(imgpath): a new image with the path as given
LoadImage(imgs, imgpath) == Append(imgs, NewImage(imgpath))


\* the collection after getCyclesImage(imgpath), and the index of the image returned
getCyclesImage(imgs, imgpath) ==
    LET found == FindImage(imgs, imgpath)
    IN  IF found # 0
        THEN [images |-> imgs, img |-> found, loaded |-> 0]
        ELSE [images |-> LoadImage(imgs, imgpath), img |-> Len(imgs) + 1, loaded |-> 1]

NoDuplicate(imgs) ==
    \A i, j \in 1..Len(imgs) :
        abspath(imgs[i].filepath) = abspath(imgs[j].filepath) => i = j

ImageIdle == images = <<>> /\ arg = None /\ ret = 0 /\ loads = 0

\* the collections a session can start from: no two images of one absolute path
InitialImages ==
    {imgs \in UNION {[1..n -> {NewImage(p) : p \in Paths}] : n \in 0..(MaxImages - 1)} :
        NoDuplicate(imgs)}

ImageInit ==
    /\ images \in InitialImages
    /\ arg = None
    /\ ret = 0
    /\ loads = 0

GetCyclesImage(imgpath) ==
    LET r == getCyclesImage(images, imgpath)
    IN  /\ Len(r.images) <= MaxImages
        /\ images' = r.images
        /\ arg' = imgpath
        /\ ret' = r.img
        /\ loads' = r.loaded
        /\ UNCHANGED <<colorVars, grpVars, treeVars, tileVars, layVars, matVars>>

ImageCall == \E p \in Paths : GetCyclesImage(p)

(***************************************************************************)
(* AppendableNodeGroup and appendFromBlend (cycles_utils.py 124-201).      *)
(* A node group is [uid, name, nodes]; its nodes are [name, label] records.*)
(* node-groups.blend holds the groups that can be appended.                *)
(***************************************************************************)
MaxGets == 3

RandomizeTiles == [ID |-> "ID-34GH89", NAME |-> "Randomize Tiles"]

NoGroup == 0

\* the node contents a group can have, as far as __isAlreadyThere looks at them
GroupNodeSets ==
    { {},
      {[name |-> "Group Input", label |-> RandomizeTiles.ID]},
      {[name |-> "Group Input", label |-> ""]},
      {[name |-> "Group Input.001", label |-> RandomizeTiles.ID]},
      {[name |-> "Group Input", label |-> ""],
       [name |-> "Group Input.001", label |-> RandomizeTiles.ID]} }

\* faulty variant: any node carrying the label counts, whatever its name
isGroupOfAnyNode(cls, group) == \E n \in group.nodes : n.label = cls.ID

\* f in __isAlreadyThere
isGroupOf(cls, group) ==
    IF \E n \in group.nodes : n.name = "Group Input"
    THEN \E n \in group.nodes : n.name = "Group Input" /\ n.label = cls.ID
    ELSE FALSE

\* __isAlreadyThere: the uid of the first matching group, NoGroup if there is none
isAlreadyThere(cls, groups) ==
    IF \E i \in 1..Len(groups) : isGroupOf(cls, groups[i])
    THEN groups[CHOOSE i \in 1..Len(groups) :
                    /\ isGroupOf(cls, groups[i])
                    /\ \A j \in 1..(i - 1) : ~isGroupOf(cls, groups[j])].uid
    ELSE NoGroup

InsertAt(seq, pos, x) == SubSeq(seq, 1, pos - 1) \o <<x>> \o SubSeq(seq, pos, Len(seq))

\* appendFromBlend(BLEND_FILE, datatype="node_groups", name=NAME): blocks = [NAME];
\* the library loader replaces the entry by the appended group, or by None when
\* the file has no group of that name.  Blender keeps node_groups sorted by
\* name, so the new group lands at a position pos the caller does not choose.
appendFromBlend(file, name, groups, pos) ==
    IF \E g \in file : g.name = name
    THEN LET g == CHOOSE g \in file : g.name = name
             new == [uid |-> Len(groups) + 1, name |-> name, nodes |-> g.nodes]
         IN  [node_groups |-> InsertAt(groups, pos, new), blocks |-> <<new.uid>>]
    ELSE [node_groups |-> groups, blocks |-> <<NoGroup>>]

\* AppendableNodeGroup.get
get(cls, file, groups, pos) ==
    LET there == isAlreadyThere(cls, groups)
    IN  IF there # NoGroup
        THEN [node_groups |-> groups, group |-> there, appended |-> 0]
        ELSE LET a == appendFromBlend(file, cls.NAME, groups, pos)
             IN  [node_groups |-> a.node_groups, group |-> a.blocks[1], appended |-> 1]

BlendFiles ==
    {{}} \cup {{[name |-> RandomizeTiles.NAME, nodes |-> ns]} : ns \in GroupNodeSets}

InitialGroups ==
    {<<>>} \cup {<<[uid |-> 1, name |-> "NodeGroup", nodes |-> ns]>> : ns \in GroupNodeSets}

GroupIdle ==
    /\ node_groups = <<>>
    /\ blend = {[name |-> RandomizeTiles.NAME,
                 nodes |-> {[name |-> "Group Input", label |-> RandomizeTiles.ID]}]}
    /\ appends = 0
    /\ returned = <<>>

GroupInit ==
    /\ node_groups \in InitialGroups
    /\ blend \in BlendFiles
    /\ appends = 0
    /\ returned = <<>>

Get(cls) ==
    /\ Len(returned) < MaxGets
    /\ \E pos \in 1..(Len(node_groups) + 1) :
          LET r == get(cls, blend, node_groups, pos)
          IN  /\ node_groups' = r.node_groups
              /\ appends' = appends + r.appended
              /\ returned' = Append(returned, r.group)
    /\ UNCHANGED <<blend, colorVars, imgVars, treeVars, tileVars, layVars, matVars>>

GroupCall == Get(RandomizeTiles)

(***************************************************************************)
(* addRandomizeTiles (cycles_utils.py 57-92).                              *)
(* A node is [type, key]: its type and what it was created for (a sequence *)
(* of strings).  nodes is a bag, so creating a node twice shows.           *)
(* A link is [from, fsock, to, tsock].                                     *)
(***************************************************************************)
Node(type, key) == [type |-> type, key |-> key]

Link(n, ns, m, ms) == [from |-> n, fsock |-> ns, to |-> m, tsock |-> ms]

\* nodes.new
NodesNew(ns, n) == ns (+) SetToBag({n})

\* links.new: an input socket holds one link, the new link replaces the old one
LinksNew(ls, l) == {x \in ls : ~(x.to = l.to /\ x.tsock = l.tsock)} \cup {l}

TexCoord == Node("ShaderNodeTexCoord", <<>>)

\* the outputs of a Texture Coordinate node the model links, in socket order
TexCoordOutputs == <<"Generated", "UV", "Object">>

\* the image texture nodes whose Vector input may be fed by the Texture Coordinate node
TileTargets == {Node("ShaderNodeTexImage", <<k>>) : k \in {"t1", "t2", "t3"}}

NoFn == "unset"

\* socket.links of an output socket of the Texture Coordinate node
SocketLinks(ls, out) == {l \in ls : l.from = TexCoord /\ l.fsock = out}

\* the linked outputs' link tuples, in socket order
RECURSIVE LinkedBundles(_, _)
LinkedBundles(ls, outs) ==
    IF outs = <<>> THEN <<>>
    ELSE IF SocketLinks(ls, Head(outs)) # {}
         THEN <<SocketLinks(ls, Head(outs))>> \o LinkedBundles(ls, Tail(outs))
         ELSE LinkedBundles(ls, Tail(outs))

\* one pass of the body of do()'s outer loop, for the bundle link_tuple of one output:
\* every link of the bundle is removed and its target linked from the group node
\* (every link of a bundle leaves the same socket, which is what start ends up as)
InsertTiling(t, link_tuple) ==
    LET start == (CHOOSE l \in link_tuple : TRUE).fsock
        mapping_node == Node("ShaderNodeMapping", <<start>>)
        tiling_node == Node("ShaderNodeGroup", <<start>>)
        ns == NodesNew(NodesNew(t.nodes, mapping_node), tiling_node)
        l0 == LinksNew(t.links, Link(mapping_node, "Vector", tiling_node, "UV"))
        l1 == (l0 \ link_tuple)
                \cup {Link(tiling_node, "UV", l.to, l.tsock) : l \in link_tuple}
        l2 == LinksNew(l1, Link(TexCoord, start, mapping_node, "Vector"))
    IN  [nodes |-> ns, links |-> l2]

\* do()'s outer loop as written: return True ends it inside the first pass
doLoop(t, bundles) ==
    IF bundles = <<>> THEN [tree |-> t, result |-> "None"]
    ELSE [tree |-> InsertTiling(t, Head(bundles)), result |-> "True"]

TileIdle ==
    /\ use_nodes = TRUE
    /\ texcoord_links = <<>>
    /\ doFn = NoFn
    /\ doRet = NoFn

TileTreeInit ==
    /\ nodes = SetToBag({TexCoord} \cup TileTargets)
    /\ \E src \in [TileTargets -> {"", "Generated", "UV", "Object"}] :
          links = {Link(TexCoord, src[t], t, "Vector") : t \in {x \in TileTargets : src[x] # ""}}

TileInit ==
    /\ use_nodes \in BOOLEAN
    /\ texcoord_links = <<>>
    /\ doFn = NoFn
    /\ doRet = NoFn

\* addRandomizeTiles(material): False, or the closure do with texcoord_links bound
AddRandomizeTiles ==
    /\ doFn = NoFn
    /\ IF ~use_nodes
       THEN doFn' = "False" /\ UNCHANGED texcoord_links
       ELSE LET found == LinkedBundles(links, TexCoordOutputs)
            IN  /\ texcoord_links' = found
                /\ doFn' = IF Len(found) = 0 THEN "False" ELSE "do"
    /\ UNCHANGED <<use_nodes, doRet, treeVars, colorVars, imgVars, grpVars, layVars, matVars>>

\* do(): RandomizeTiles.get(), then the loop
Do ==
    /\ doFn = "do"
    /\ doRet = NoFn
    /\ \E pos \in 1..(Len(node_groups) + 1) :
          LET g == get(RandomizeTiles, blend, node_groups, pos)
              r == doLoop([nodes |-> nodes, links |-> links], texcoord_links)
          IN  /\ node_groups' = g.node_groups
              /\ appends' = appends + g.appended
              /\ returned' = Append(returned, g.group)
              /\ nodes' = r.tree.nodes
              /\ links' = r.tree.links
              /\ doRet' = r.result
    /\ UNCHANGED <<blend, use_nodes, texcoord_links, doFn, colorVars, imgVars, layVars, matVars>>

(***************************************************************************)
(* autoAlignNodes (cycles_utils.py 26-53).                                 *)
(* g[n] is the sequence of from_node of the links into node n, in the      *)
(* order "for i in n.inputs: for l in i.links".  A location is <<x, y>> in *)
(* half units (twice Blender's value), which keeps ystep * 0.25 integral.  *)
(***************************************************************************)
NumNodes == 4

xstep == 400
ystep == 170

RECURSIVE SumCounts(_)
SumCounts(children) ==
    IF children = <<>> THEN 0
    ELSE Head(children).count + 1 + SumCounts(Tail(children))

\* makeTree: (node, children, descendentCount)
RECURSIVE makeTree(_, _)
makeTree(g, node) ==
    LET children == [i \in 1..Len(g[node]) |-> makeTree(g, g[node][i])]
    IN  [node |-> node, children |-> children, count |-> SumCounts(children)]

\* faulty variant: the first half step is left out
AccMiddleNoStep(acc4, child) == acc4

\* acc, kept in quarters, after the first "acc += (child[2]+1)/2."
AccMiddle(acc4, child) == acc4 + 2 * (child.count + 1)

\* placeNodes: node.location after the call; a later assignment overwrites an earlier one
RECURSIVE placeNodes(_, _, _)
RECURSIVE placeChildren(_, _, _, _)
placeNodes(tree, rootLocation, loc) ==
    LET placed == [loc EXCEPT ![tree.node] = rootLocation]
        childLoc == <<rootLocation[1] - 2 * xstep, rootLocation[2] + ystep * tree.count>>
    IN  placeChildren(tree.children, childLoc, 1, placed)

placeChildren(children, childLoc, acc4, loc) ==
    IF children = <<>> THEN loc
    ELSE LET child == Head(children)
             mid == AccMiddle(acc4, child)
             placed == placeNodes(child, <<childLoc[1], childLoc[2] - (ystep * mid) \div 2>>, loc)
         IN  placeChildren(Tail(children), childLoc, mid + 2 * (child.count + 1), placed)

autoAlignNodes(g, root, loc) == placeNodes(makeTree(g, root), <<0, 0>>, loc)

\* the input links a node of the graph can have: links come from later nodes only
\* (a node tree has no cycles)
LinkSeqs(n) ==
    LET later == (n + 1)..NumNodes
    IN  {<<>>} \cup {<<a>> : a \in later} \cup {<<a, b>> : a, b \in later}

StartLocation(n) == <<20 * n, 0 - 30 * n>>

LayoutIdle ==
    /\ graph = <<>>
    /\ location = <<>>
    /\ aligned = <<>>

LayoutInit ==
    /\ graph \in {g \in [1..NumNodes -> UNION {LinkSeqs(n) : n \in 1..NumNodes}] :
                    \A n \in 1..NumNodes : g[n] \in LinkSeqs(n)}
    /\ location = [n \in 1..NumNodes |-> StartLocation(n)]
    /\ aligned = <<>>

AutoAlignNodes(root) ==
    /\ aligned = <<>>
    /\ location' = autoAlignNodes(graph, root, location)
    /\ aligned' = Append(aligned, root)
    /\ UNCHANGED <<graph, colorVars, imgVars, grpVars, treeVars, tileVars, matVars>>

LayoutCall == AutoAlignNodes(1)

(***************************************************************************)
(* CyclesMaterialData.createMaterial (CyclesMaterialData.py 36-98).        *)
(* A map name is the sequence of its "_"-separated parts, so that          *)
(* split("_")[0], endswith("_back") and [:-5] are computed, not assumed.   *)
(***************************************************************************)
MaxMaps == 3

input_tr ==
    [r \in {"baseColor", "normal", "roughness", "metallic", "specular", "opacity",
            "emission", "height", "ambientOcclusion", "glossiness"} |->
        CASE r = "baseColor" -> "Base Color"
          [] r = "normal" -> "Normal"
          [] r = "roughness" -> "Roughness"
          [] r = "metallic" -> "Metallic"
          [] r = "specular" -> "Specular"
          [] r = "opacity" -> "Alpha"
          [] r = "emission" -> "Emission"
          [] r = "height" -> "<custom>"
          [] r = "ambientOcclusion" -> "<custom>"
          [] r = "glossiness" -> "<custom>"]

\* the input sockets of each node type createMaterial uses, in socket order
InputSockets(type) ==
    CASE type = "ShaderNodeOutputMaterial" -> <<"Surface", "Volume", "Displacement">>
      [] type = "ShaderNodeBsdfPrincipled" ->
            <<"Base Color", "Subsurface", "Subsurface Radius", "Subsurface Color",
              "Metallic", "Specular", "Specular Tint", "Roughness", "Anisotropic",
              "Anisotropic Rotation", "Sheen", "Sheen Tint", "Clearcoat",
              "Clearcoat Roughness", "IOR", "Transmission", "Transmission Roughness",
              "Emission", "Alpha", "Normal", "Clearcoat Normal", "Tangent">>
      [] type = "ShaderNodeMixShader" -> <<"Fac", "Shader[1]", "Shader[2]">>
      [] type = "ShaderNodeInvert" -> <<"Fac", "Color">>
      [] type = "ShaderNodeNormalMap" -> <<"Strength", "Color">>
      [] type = "ShaderNodeDisplacement" -> <<"Height", "Midlevel", "Scale", "Normal">>
      [] type = "ShaderNodeTexImage" -> <<"Vector">>
      [] OTHER -> <<>>

Range(seq) == {seq[i] : i \in 1..Len(seq)}

NoNode == Node("None", <<>>)
Principled == Node("ShaderNodeBsdfPrincipled", <<>>)
MatOutput == Node("ShaderNodeOutputMaterial", <<>>)
BackPrincipled == Node("ShaderNodeBsdfPrincipled", <<"back">>)
GeometryNode == Node("ShaderNodeNewGeometry", <<>>)
MixNode == Node("ShaderNodeMixShader", <<>>)

\* the map names and images the model feeds createMaterial
MapNames ==
    {<<r>> : r \in {"baseColor", "normal", "roughness", "opacity", "height",
                    "ambientOcclusion", "glossiness", "diffuse"}}
      \cup {<<r, "back">> : r \in {"baseColor", "normal", "height"}}

MapImages == {None, <<"a.png">>, <<"b.png">>}

endswithBack(map_name) == Len(map_name) >= 2 /\ map_name[Len(map_name)] = "back"

dropBack(map_name) == SubSeq(map_name, 1, Len(map_name) - 1)

\* line 50: the entries the loop skips
skipped(map_name, img) == img = None \/ map_name[1] \notin DOMAIN input_tr

\* lines 56-64: the back-face principled, geometry and mix shader nodes
backSetup(f) ==
    LET ns == NodesNew(NodesNew(NodesNew(f.nodes, BackPrincipled), GeometryNode), MixNode)
        l1 == LinksNew(f.links, Link(GeometryNode, "Backfacing", MixNode, "Fac"))
        l2 == LinksNew(l1, Link(Principled, "BSDF", MixNode, "Shader[1]"))
        l3 == LinksNew(l2, Link(BackPrincipled, "BSDF", MixNode, "Shader[2]"))
        l4 == LinksNew(l3, Link(MixNode, "Shader", MatOutput, "Surface"))
    IN  [f EXCEPT !.nodes = ns, !.links = l4,
                  !.back_principled = BackPrincipled,
                  !.rough_one = @ \cup {BackPrincipled}]

\* faulty variant: the back-face setup is built for every "_back" entry
needsBackSetupAlways(f) == TRUE

\* line 55
needsBackSetup(f) == f.back_principled = NoNode

\* lines 90-94, after the if/elif chain
afterWiring(f, map_name) ==
    LET f1 == IF map_name = <<"opacity">> THEN [f EXCEPT !.blend_method = "BLEND"] ELSE f
    IN  IF f1.displacement_node # NoNode /\ f1.normal_node # NoNode
        THEN [f1 EXCEPT !.links =
                LinksNew(@, Link(f1.normal_node, "Normal", f1.displacement_node, "Normal"))]
        ELSE f1

\* lines 72-88: the if/elif chain; error is the KeyError of line 88
wire(f, texture_node, map_name, key, current_principled) ==
    IF f.has_color_space
    THEN [f EXCEPT !.color_space_of =
            (texture_node :> (IF map_name = <<"baseColor">> THEN "COLOR" ELSE "NONE")) @@ @]
    ELSE IF map_name = <<"glossiness">>
    THEN LET invert_node == Node("ShaderNodeInvert", key)
             l1 == LinksNew(f.links, Link(texture_node, "Color", invert_node, "Color"))
             l2 == LinksNew(l1, Link(invert_node, "Color", current_principled, "Roughness"))
         IN  [f EXCEPT !.nodes = NodesNew(@, invert_node), !.links = l2]
    ELSE IF map_name = <<"height">>
    THEN LET displacement == Node("ShaderNodeDisplacement", key)
             l1 == LinksNew(f.links, Link(texture_node, "Color", displacement, "Height"))
             l2 == LinksNew(l1, Link(displacement, "Displacement", MatOutput, "Displacement"))
         IN  [f EXCEPT !.nodes = NodesNew(@, displacement), !.links = l2,
                       !.displacement_node = displacement]
    ELSE IF map_name = <<"normal">>
    THEN LET normal == Node("ShaderNodeNormalMap", key)
             l1 == LinksNew(f.links, Link(texture_node, "Color", normal, "Color"))
             l2 == LinksNew(l1, Link(normal, "Normal", current_principled, "Normal"))
         IN  [f EXCEPT !.nodes = NodesNew(@, normal), !.links = l2,
                       !.normal_node = normal]
    ELSE IF /\ Len(map_name) = 1
            /\ map_name[1] \in DOMAIN input_tr
            /\ input_tr[map_name[1]] \in Range(InputSockets(current_principled.type))
    THEN [f EXCEPT !.links =
            LinksNew(@, Link(texture_node, "Color", current_principled, input_tr[map_name[1]]))]
    ELSE [f EXCEPT !.error = TRUE]

\* lines 50-94: one pass of the loop, on the frame f of the function's data
iterate(f, key, img) ==
    IF skipped(key, img) THEN f
    ELSE LET back == endswithBack(key)
             f1 == IF back /\ needsBackSetup(f) THEN backSetup(f) ELSE f
             current_principled == IF back THEN f1.back_principled ELSE Principled
             map_name == IF back THEN dropBack(key) ELSE key
             texture_node == Node("ShaderNodeTexImage", key)
             c == getCyclesImage(f1.images, img)
             f2 == [f1 EXCEPT
                      !.nodes = NodesNew(@, texture_node),
                      !.images = [c.images EXCEPT ![c.img].colorspace =
                                    IF map_name = <<"baseColor">> THEN "sRGB" ELSE "Non-Color"],
                      !.image_of = (texture_node :> c.img) @@ @]
             f3 == wire(f2, texture_node, map_name, key, current_principled)
         IN  IF f3.error THEN f3 ELSE afterWiring(f3, map_name)

\* lines 37-47: the new material, its Principled BSDF and Material Output
NewFrame(hasattr) ==
    [nodes |-> SetToBag({Principled, MatOutput}),
     links |-> {Link(Principled, "BSDF", MatOutput, "Surface")},
     images |-> <<>>,
     image_of |-> <<>>,
     color_space_of |-> <<>>,
     back_principled |-> NoNode,
     normal_node |-> NoNode,
     displacement_node |-> NoNode,
     rough_one |-> {Principled},
     blend_method |-> "OPAQUE",
     has_color_space |-> hasattr,
     error |-> FALSE]

Frame ==
    [nodes |-> nodes, links |-> links, images |-> images, image_of |-> image_of,
     color_space_of |-> color_space_of, back_principled |-> back_principled,
     normal_node |-> normal_node, displacement_node |-> displacement_node,
     rough_one |-> rough_one, blend_method |-> blend_method,
     has_color_space |-> has_color_space, error |-> pc = "error"]

\* the input links of the material's nodes, as autoAlignNodes walks them
RECURSIVE FromNodes(_, _, _)
FromNodes(ls, n, socks) ==
    IF socks = <<>> THEN <<>>
    ELSE LET into == {l \in ls : l.to = n /\ l.tsock = Head(socks)}
         IN  (IF into = {} THEN <<>> ELSE <<(CHOOSE l \in into : TRUE).from>>)
                \o FromNodes(ls, n, Tail(socks))

MaterialGraph(ns, ls) == [n \in BagToSet(ns) |-> FromNodes(ls, n, InputSockets(n.type))]

\* nodes.new puts a node at the origin
WithNewNodes(loc, ns) ==
    [n \in BagToSet(ns) |-> IF n \in DOMAIN loc THEN loc[n] ELSE <<0, 0>>]

MatIdle ==
    /\ maps = <<>>
    /\ todo = {}
    /\ pc = "idle"
    /\ back_principled = NoNode
    /\ normal_node = NoNode
    /\ displacement_node = NoNode
    /\ image_of = <<>>
    /\ color_space_of = <<>>
    /\ rough_one = {}
    /\ blend_method = "OPAQUE"
    /\ has_color_space = FALSE

MatInit ==
    /\ \E names \in {S \in SUBSET MapNames : Cardinality(S) <= MaxMaps} :
          maps \in [names -> MapImages]
    /\ todo = {}
    /\ pc = "start"
    /\ back_principled = NoNode
    /\ normal_node = NoNode
    /\ displacement_node = NoNode
    /\ image_of = <<>>
    /\ color_space_of = <<>>
    /\ rough_one = {}
    /\ blend_method = "OPAQUE"
    /\ has_color_space \in BOOLEAN

SetFrame(f) ==
    /\ nodes' = f.nodes
    /\ links' = f.links
    /\ images' = f.images
    /\ image_of' = f.image_of
    /\ color_space_of' = f.color_space_of
    /\ back_principled' = f.back_principled
    /\ normal_node' = f.normal_node
    /\ displacement_node' = f.displacement_node
    /\ rough_one' = f.rough_one
    /\ blend_method' = f.blend_method
    /\ location' = WithNewNodes(location, f.nodes)

\* lines 37-47
Begin ==
    /\ pc = "start"
    /\ SetFrame(NewFrame(has_color_space))
    /\ todo' = DOMAIN maps
    /\ pc' = "loop"
    /\ UNCHANGED <<maps, has_color_space, arg, ret, loads, graph, aligned,
                   colorVars, grpVars, tileVars>>

\* faulty variant: the layout is not held back until the loop has finished
LoopAnywhere == TRUE

\* line 49: the loop has gone through all of self.maps
LoopFinished == todo = {}

\* lines 49-94: one pass of the loop; self.maps is a dict, in any order
Iterate(key) ==
    /\ pc = "loop"
    /\ key \in todo
    /\ LET f == iterate(Frame, key, maps[key])
       IN  /\ SetFrame(f)
           /\ pc' = IF f.error THEN "error" ELSE "loop"
    /\ todo' = todo \ {key}
    /\ UNCHANGED <<maps, has_color_space, arg, ret, loads, graph, aligned,
                   colorVars, grpVars, tileVars>>

\* line 96
Align ==
    /\ pc = "loop"
    /\ LoopFinished
    /\ location' = autoAlignNodes(MaterialGraph(nodes, links), MatOutput, location)
    /\ aligned' = Append(aligned, MatOutput)
    /\ pc' = "aligned"
    /\ UNCHANGED <<maps, todo, has_color_space, back_principled, normal_node,
                   displacement_node, image_of, color_space_of, rough_one, blend_method,
                   graph, colorVars, imgVars, grpVars, treeVars, tileVars>>

\* line 98
Return ==
    /\ pc = "aligned"
    /\ pc' = "done"
    /\ UNCHANGED <<maps, todo, has_color_space, back_principled, normal_node,
                   displacement_node, image_of, color_space_of, rough_one, blend_method,
                   layVars, colorVars, imgVars, grpVars, treeVars, tileVars>>

CreateMaterial == Begin \/ (\E key \in MapNames : Iterate(key)) \/ Align \/ Return

(***************************************************************************)
(* Specifications                                                          *)
(***************************************************************************)
TreeIdle == nodes = EmptyBag /\ links = {}

InitColor == MatIdle /\ LayoutIdle /\ ColorInit /\ ImageIdle /\ GroupIdle /\ TreeIdle /\ TileIdle
NextColor == GuessColorSpace
SpecColor == InitColor /\ [][NextColor]_vars

InitImage == MatIdle /\ LayoutIdle /\ ColorIdle /\ ImageInit /\ GroupIdle /\ TreeIdle /\ TileIdle
NextImage == ImageCall
SpecImage == InitImage /\ [][NextImage]_vars

InitGroup == MatIdle /\ LayoutIdle /\ ColorIdle /\ ImageIdle /\ GroupInit /\ TreeIdle /\ TileIdle
NextGroup == GroupCall
SpecGroup == InitGroup /\ [][NextGroup]_vars

InitTiles == MatIdle /\ LayoutIdle /\ ColorIdle /\ ImageIdle /\ GroupIdle /\ TileTreeInit /\ TileInit
NextTiles == AddRandomizeTiles \/ Do
SpecTiles == InitTiles /\ [][NextTiles]_vars

InitLayout == MatIdle /\ ColorIdle /\ ImageIdle /\ GroupIdle /\ TreeIdle /\ TileIdle /\ LayoutInit
NextLayout == LayoutCall
SpecLayout == InitLayout /\ [][NextLayout]_vars

InitMaterial ==
    /\ MatInit /\ ColorIdle /\ ImageIdle /\ GroupIdle /\ TreeIdle /\ TileIdle
    /\ graph = <<>> /\ location = <<>> /\ aligned = <<>>
NextMaterial == CreateMaterial
SpecMaterial == InitMaterial /\ [][NextMaterial]_vars

\* C7: the guess is sRGB/COLOR exactly when the name ends, in any letter case,
\* with .jpg, .jpeg or .png, it is Linear/NONE for every other name, and it is
\* decided by the last five characters alone.
EndsWithAnyCase(s, ext) ==
    /\ Len(s) >= Len(ext)
    /\ \A i \in 1..Len(ext) :
          LET c == s[Len(s) - Len(ext) + i]
          IN  c = ext[i] \/ <<c, ext[i]>> \in {<<"J", "j">>, <<"P", "p">>, <<"G", "g">>}

LastChars(s, n) == IF Len(s) <= n THEN s ELSE SubSeq(s, Len(s) - n + 1, Len(s))

C7_ColorSpaceByExtension ==
    guess # NoGuess =>
        /\ guess = SRGB <=> \E ext \in {ExtJpg, ExtJpeg, ExtPng} : EndsWithAnyCase(fname, ext)
        /\ guess # SRGB => guess = Linear
        /\ guess = guessColorSpaceFromExtension(LastChars(fname, 5))

C7_Witness ==
    /\ guess = SRGB
    /\ fname # lower(fname)
    /\ Len(fname) = 5

\* C1: a call whose path has the absolute form of a stored image returns that
\* image and leaves bpy.data.images unchanged, a call with a new absolute path
\* adds one image, and no two images ever share an absolute path.
C1_ImageCacheStep ==
    LET p == arg'
    IN  GetCyclesImage(p) =>
            /\ (\E i \in 1..Len(images) : abspath(images[i].filepath) = abspath(p))
                => /\ images' = images
                   /\ ret' \in 1..Len(images)
                   /\ abspath(images[ret'].filepath) = abspath(p)
                   /\ loads' = 0
            /\ (\A i \in 1..Len(images) : abspath(images[i].filepath) # abspath(p))
                => /\ Len(images') = Len(images) + 1
                   /\ SubSeq(images', 1, Len(images)) = images
                   /\ images'[ret'].filepath = p
                   /\ loads' = 1
            /\ NoDuplicate(images')

C1_ImageCache == [][C1_ImageCacheStep]_vars

C1_Witness ==
    /\ arg # None
    /\ loads = 0
    /\ ret # 0
    /\ images[ret].filepath # arg
    /\ Len(images) = 2

\* C2: get() appends exactly when no group has a node named "Group Input"
\* labelled cls.ID, and otherwise returns such a group and appends nothing; when
\* the bundled group carries the label, the file is appended at most once and
\* every call returns the same group.
HasLabelledInput(cls, group) ==
    \E n \in group.nodes : n.name = "Group Input" /\ n.label = cls.ID

C2_GetStep ==
    returned' # returned =>
        LET there == {i \in 1..Len(node_groups) : HasLabelledInput(RandomizeTiles, node_groups[i])}
            got == returned'[Len(returned')]
        IN  /\ there = {} <=> appends' = appends + 1
            /\ there # {} =>
                  /\ node_groups' = node_groups
                  /\ appends' = appends
                  /\ \E i \in there : node_groups[i].uid = got

BundleCarriesID ==
    \E g \in blend : g.name = RandomizeTiles.NAME /\ HasLabelledInput(RandomizeTiles, g)

C2_AppendOnce ==
    BundleCarriesID =>
        /\ appends <= 1
        /\ \A i, j \in 1..Len(returned) : returned[i] = returned[j]
        /\ \A i \in 1..Len(returned) : returned[i] # NoGroup

C2_NodeGroupLoader == [][C2_GetStep]_vars /\ []C2_AppendOnce

C2_Witness ==
    /\ BundleCarriesID
    /\ appends = 1
    /\ Len(returned) = 3
    /\ Len(node_groups) = 2

\* C4: after do() has run, every Texture Coordinate output that was linked has
\* its own Mapping node and Randomize Tiles group node between it and all of
\* its former targets, and no direct link to a former target is left.
TilingInserted(bundle) ==
    LET out == (CHOOSE l \in bundle : TRUE).fsock
        mapping_node == Node("ShaderNodeMapping", <<out>>)
        tiling_node == Node("ShaderNodeGroup", <<out>>)
    IN  /\ CopiesIn(mapping_node, nodes) = 1
        /\ CopiesIn(tiling_node, nodes) = 1
        /\ Link(TexCoord, out, mapping_node, "Vector") \in links
        /\ Link(mapping_node, "Vector", tiling_node, "UV") \in links
        /\ \A l \in bundle :
              /\ Link(tiling_node, "UV", l.to, l.tsock) \in links
              /\ l \notin links

C4_EveryLinkedOutput ==
    doRet # NoFn =>
        \A i \in 1..Len(texcoord_links) : TilingInserted(texcoord_links[i])

\* what do() does bring about for the first linked output
FirstLinkedOutputOnly ==
    doRet # NoFn => TilingInserted(texcoord_links[1])

\* C6: the root is placed at (0,0); an occurrence of a node at (x, y) whose
\* children have descendant counts d_1..d_k has child i placed at x - xstep and
\* y + ystep*count/2 - ystep*(0.25 + sum_{j<i}(d_j+1) + (d_i+1)/2), so that
\* consecutive siblings are ystep*((d_i+1)+(d_{i+1}+1))/2 apart; a node keeps the
\* place of its last occurrence, and a node not reachable from the root keeps
\* its location.
\* An occurrence is the path of input-link indices leading to it from the root.
RECURSIVE NodeAt(_, _)
NodeAt(path, root) ==
    IF path = <<>> THEN root
    ELSE graph[NodeAt(SubSeq(path, 1, Len(path) - 1), root)][path[Len(path)]]

RECURSIVE OccurrencesFrom(_, _)
OccurrencesFrom(path, node) ==
    {path} \cup UNION {OccurrencesFrom(Append(path, i), graph[node][i]) : i \in 1..Len(graph[node])}

IsPrefix(p, q) == Len(p) < Len(q) /\ SubSeq(q, 1, Len(p)) = p

\* descendant count: the occurrences strictly below this one
Descendants(occ, path) == Cardinality({q \in occ : IsPrefix(path, q)})

RECURSIVE SumBefore(_, _, _)
SumBefore(occ, path, i) ==
    IF i = 1 THEN 0
    ELSE SumBefore(occ, path, i - 1) + Descendants(occ, Append(path, i - 1)) + 1

\* the closed form, in half units: 2*ystep*0.25 = ystep \div 2
RECURSIVE ClosedForm(_, _)
ClosedForm(occ, path) ==
    IF path = <<>> THEN <<0, 0>>
    ELSE LET parent == SubSeq(path, 1, Len(path) - 1)
             i == path[Len(path)]
             at == ClosedForm(occ, parent)
         IN  <<at[1] - 2 * xstep,
               at[2] + ystep * Descendants(occ, parent)
                 - (ystep \div 2 + 2 * ystep * SumBefore(occ, parent, i)
                     + ystep * (Descendants(occ, path) + 1))>>

\* p comes before q in the order the occurrences are placed
RECURSIVE PlacedBefore(_, _)
PlacedBefore(p, q) ==
    IF p = <<>> THEN q # <<>>
    ELSE IF q = <<>> THEN FALSE
    ELSE IF Head(p) # Head(q) THEN Head(p) < Head(q)
    ELSE PlacedBefore(Tail(p), Tail(q))

C6_Layout ==
    aligned # <<>> =>
        LET root == aligned[1]
            occ == OccurrencesFrom(<<>>, root)
        IN  /\ location[root] = <<0, 0>>
            /\ \A n \in DOMAIN graph :
                  LET mine == {p \in occ : NodeAt(p, root) = n}
                  IN  IF mine = {} THEN location[n] = StartLocation(n)
                      ELSE \E p \in mine :
                              /\ \A q \in mine \ {p} : PlacedBefore(q, p)
                              /\ location[n] = ClosedForm(occ, p)
            /\ \A p \in occ : \A i \in 1..(Len(graph[NodeAt(p, root)]) - 1) :
                  ClosedForm(occ, Append(p, i))[2] - ClosedForm(occ, Append(p, i + 1))[2]
                     = ystep * (Descendants(occ, Append(p, i)) + 1
                                + Descendants(occ, Append(p, i + 1)) + 1)

C6_Witness ==
    /\ aligned # <<>>
    /\ Len(graph[1]) = 2
    /\ graph[1][1] # graph[1][2]
    /\ Len(graph[graph[1][1]]) = 2
    /\ location[4] = StartLocation(4)

\* ---- createMaterial: what the claims speak of ----
Entries == {k \in DOMAIN maps : ~skipped(k, maps[k])}

BackEntries == {k \in Entries : endswithBack(k)}

Role(k) == k[1]

TextureOf(k) == Node("ShaderNodeTexImage", k)

AuxiliaryTypes == {"ShaderNodeInvert", "ShaderNodeNormalMap", "ShaderNodeDisplacement"}

\* the nodes a texture's Color output reaches, directly or through one auxiliary node
Reached(k) ==
    LET direct == {l \in links : l.from = TextureOf(k) /\ l.fsock = "Color"}
        aux == {l.to : l \in {d \in direct : d.to.type \in AuxiliaryTypes}}
    IN  {l.to : l \in {d \in direct : d.to.type \notin AuxiliaryTypes}}
          \cup {l.to : l \in {x \in links : x.from \in aux}}

FedBy(n, sock) == {[node |-> l.from, sock |-> l.fsock] : l \in {x \in links : x.to = n /\ x.tsock = sock}}

\* C3: createMaterial completes, and on return every entry with an image has
\* its own image texture node whose Color output reaches, directly or through
\* one auxiliary node, the front principled shader (the back one for a "_back"
\* entry) or the material output; the other entries have no node.
C3_EveryEntryWired ==
    /\ pc # "error"
    /\ pc = "done" =>
          \A k \in DOMAIN maps :
              IF k \in Entries
              THEN /\ CopiesIn(TextureOf(k), nodes) = 1
                   /\ Reached(k) \cap {IF endswithBack(k) THEN BackPrincipled ELSE Principled,
                                       MatOutput} # {}
              ELSE \A n \in BagToSet(nodes) : n.key # k

\* C5: a run that returns has called autoAlignNodes exactly once, on the
\* material output, after the loop has gone through every entry, and no node or
\* link is created once the layout has run.
C5_NothingAfterLayout == aligned # <<>> => (nodes' = nodes /\ links' = links)

C5_LayoutOnceAtEnd ==
    /\ [](pc = "done" => aligned = <<MatOutput>>)
    /\ [](aligned # <<>> => todo = {})
    /\ [][C5_NothingAfterLayout]_vars

C5_Witness ==
    /\ pc = "done"
    /\ Cardinality(Entries) = 3
    /\ location[MatOutput] = <<0, 0>>
    /\ location[Principled] = <<0 - 2 * xstep, 0 - ystep \div 2>>

\* C8, the parts that hold: the back-face setup is built once exactly when
\* there is a recognised "_back" entry with an image; then the surface is fed by
\* the mix shader (factor Geometry.Backfacing, front principled first, back
\* principled second), and otherwise by the front principled.
BackSetupOnce ==
    LET n == IF BackEntries # {} THEN 1 ELSE 0
    IN  /\ CopiesIn(BackPrincipled, nodes) = n
        /\ CopiesIn(GeometryNode, nodes) = n
        /\ CopiesIn(MixNode, nodes) = n
        /\ IF BackEntries # {}
           THEN /\ FedBy(MatOutput, "Surface") = {[node |-> MixNode, sock |-> "Shader"]}
                /\ FedBy(MixNode, "Fac") = {[node |-> GeometryNode, sock |-> "Backfacing"]}
                /\ FedBy(MixNode, "Shader[1]") = {[node |-> Principled, sock |-> "BSDF"]}
                /\ FedBy(MixNode, "Shader[2]") = {[node |-> BackPrincipled, sock |-> "BSDF"]}
           ELSE FedBy(MatOutput, "Surface") = {[node |-> Principled, sock |-> "BSDF"]}

\* C8 as stated: ... and every "_back" entry is wired to the back principled only.
C8_BackWiredToBackPrincipledOnly ==
    pc = "done" =>
        /\ BackSetupOnce
        /\ \A k \in BackEntries : Reached(k) \subseteq {BackPrincipled}

\* C8 as amended: ... and no "_back" entry is wired to the front principled: its
\* texture reaches the back principled only, but for a height_back entry, which
\* reaches the material output, and a normal_back entry, whose normal map may
\* also feed a displacement node.
C8_BackNeverWiredToFront ==
    pc = "done" =>
        /\ BackSetupOnce
        /\ \A k \in BackEntries :
              /\ Principled \notin Reached(k)
              /\ Reached(k) \subseteq
                    CASE Role(k) = "height" -> {MatOutput}
                      [] Role(k) = "normal" ->
                            {BackPrincipled} \cup {n \in BagToSet(nodes) : n.type = "ShaderNodeDisplacement"}
                      [] OTHER -> {BackPrincipled}

C8_Witness ==
    /\ pc = "done"
    /\ Cardinality(BackEntries) = 2
    /\ ~has_color_space
    /\ \E k \in BackEntries : BackPrincipled \in Reached(k)

\* C9: with a height entry and a normal entry, on return the Normal input of
\* the displacement node that feeds the material output is linked from a normal
\* map node, and from the same one whatever the order of the entries (on a
\* Blender whose texture nodes have no color_space attribute).
RECURSIVE runLoop(_, _)
runLoop(f, order) ==
    IF order = <<>> \/ f.error THEN f
    ELSE runLoop(iterate(f, Head(order), maps[Head(order)]), Tail(order))

Orders ==
    LET n == Cardinality(DOMAIN maps)
    IN  {o \in [1..n -> DOMAIN maps] : \A i, j \in 1..n : o[i] = o[j] => i = j}

\* the nodes linked into the Normal input of the displacement node in use
NormalFeeder(ls) ==
    LET disp == {l.from : l \in {x \in ls : x.to = MatOutput /\ x.tsock = "Displacement"}}
    IN  {l.from : l \in {x \in ls : x.to \in disp /\ x.tsock = "Normal" /\ x.fsock = "Normal"}}

C9_NormalFeedsDisplacement ==
    (/\ pc = "done"
     /\ ~has_color_space
     /\ \E k \in Entries : Role(k) = "height"
     /\ \E k \in Entries : Role(k) = "normal")
    => /\ \E n \in NormalFeeder(links) : n.type = "ShaderNodeNormalMap"
       /\ \A o \in Orders :
             NormalFeeder(runLoop(NewFrame(has_color_space), o).links) = NormalFeeder(links)

\* C10: on return the image of every image texture node has color space sRGB
\* if the node's role is baseColor and Non-Color otherwise.
C10_ColorSpaceByRole ==
    pc = "done" =>
        \A k \in Entries :
            images[image_of[TextureOf(k)]].colorspace
                = IF Role(k) = "baseColor" THEN "sRGB" ELSE "Non-Color"
====
